---- MODULE Spec2Model ----
(***************************************************************************)
(* Press-review generator (Auto_Data4.py: command-line front end "cli";    *)
(* Auto-monitoring-cloud.py: Streamlit front end "cloud").                 *)
(*                                                                         *)
(* A Python str is a sequence of one-character strings.  The characters    *)
(* "e_acute" / "E_acute" stand for U+00E9 / U+00C9 and "COMBINING_ACUTE"   *)
(* for U+0301 (Unicode category Mn).                                       *)
(***************************************************************************)
EXTENDS Integers, Sequences, FiniteSets, TLC

VARIABLES
    frontend,          \* which front end runs: "cli" (Auto_Data4.py) or "cloud"
    sheet,             \* the worksheet "Articles" as read_excel returns it
    args,              \* --max-rows (0: not given) and the report title
    pc,                \* position of the front end in its run
    df,                \* the front end's variable df
    validation,        \* what validate_dataframe returned
    idx,               \* position of the row loop in df (1-based)
    rows,              \* the list rows of summarized records
    html_out,          \* the rendered report
    rapport_html,      \* content of the file rapport.html
    delivered,         \* the report handed to Outlook / shown by Streamlit
    coerce_calls,      \* per row label, the calls of coerce_date on its date
    summarizer_calls,  \* the calls of smart_summarize, in order
    fc,                \* one call of find_col (SpecFindCol)
    rd                 \* one call of build_email_html (SpecRender)

pipeline == <<frontend, sheet, args, pc, df, validation, idx, rows, html_out,
              rapport_html, delivered, coerce_calls, summarizer_calls>>

vars == <<frontend, sheet, args, pc, df, validation, idx, rows, html_out,
          rapport_html, delivered, coerce_calls, summarizer_calls, fc, rd>>

(***************************************************************************)
(* Bounds of the model.                                                    *)
(***************************************************************************)
MaxHeaders == 2

MaxRows == 2

MaxRecords == 1

(***************************************************************************)
(* Python values: None / Optional                                          *)
(***************************************************************************)
None == [some |-> FALSE, v |-> <<>>]

Some(x) == [some |-> TRUE, v |-> x]

\* truth value of an Optional[str]: None and "" are falsy
Truthy(o) == o.some /\ o.v # <<>>

SetMin(S) == CHOOSE x \in S : \A y \in S : x <= y

SetMax(S) == CHOOSE x \in S : \A y \in S : x >= y

(***************************************************************************)
(* str methods                                                             *)
(***************************************************************************)
UpperChars == <<"A", "B", "C", "D", "E", "F", "G", "H", "I", "J", "K", "L", "M",
                "N", "O", "P", "Q", "R", "S", "T", "U", "V", "W", "X", "Y", "Z",
                "E_acute">>

LowerChars == <<"a", "b", "c", "d", "e", "f", "g", "h", "i", "j", "k", "l", "m",
                "n", "o", "p", "q", "r", "s", "t", "u", "v", "w", "x", "y", "z",
                "e_acute">>

\* the lower-case letter of each upper-case letter
LowerOf == [u \in {UpperChars[i] : i \in DOMAIN UpperChars} |->
               LowerChars[CHOOSE i \in DOMAIN UpperChars : UpperChars[i] = u]]

lower_char(c) == IF c \in DOMAIN LowerOf THEN LowerOf[c] ELSE c

\* str.lower()
lower(s) == [i \in 1..Len(s) |-> lower_char(s[i])]

IsSpace(c) == c \in {" ", "\t", "\n"}

\* str.strip()
strip(s) ==
    LET keep == {i \in 1..Len(s) : ~IsSpace(s[i])}
    IN  IF keep = {} THEN <<>> ELSE SubSeq(s, SetMin(keep), SetMax(keep))

\* unicodedata.normalize("NFD", c) of one character
nfd_char(c) ==
    IF c = "e_acute" THEN <<"e", "COMBINING_ACUTE">>
    ELSE IF c = "E_acute" THEN <<"E", "COMBINING_ACUTE">>
    ELSE <<c>>

RECURSIVE nfd(_)
nfd(s) == IF s = <<>> THEN <<>> ELSE nfd_char(Head(s)) \o nfd(Tail(s))

\* unicodedata.category(c) == "Mn"
IsMn(c) == c = "COMBINING_ACUTE"

normalize_colname(name) ==
    LET stripped == lower(strip(name))
    IN  SelectSeq(nfd(stripped), LAMBDA c : ~IsMn(c))

(***************************************************************************)
(* Column candidates of the two front ends                                 *)
(***************************************************************************)
LogicalFields == <<"publication", "published", "URL">>

s_media_outlet == <<"m", "e", "d", "i", "a", " ", "o", "u", "t", "l", "e", "t">>
s_publication == <<"p", "u", "b", "l", "i", "c", "a", "t", "i", "o", "n">>
s_media == <<"m", "e", "d", "i", "a">>
s_journal == <<"j", "o", "u", "r", "n", "a", "l">>
s_published == <<"p", "u", "b", "l", "i", "s", "h", "e", "d">>
s_date == <<"d", "a", "t", "e">>
s_publication_date == <<"p", "u", "b", "l", "i", "c", "a", "t", "i", "o", "n", "_", "d", "a", "t", "e">>
s_date_de_parution == <<"d", "a", "t", "e", " ", "d", "e", " ", "p", "a", "r", "u", "t", "i", "o", "n">>
s_url == <<"u", "r", "l">>
s_lien == <<"l", "i", "e", "n">>
s_link == <<"l", "i", "n", "k">>
s_adresse_web == <<"a", "d", "r", "e", "s", "s", "e", " ", "w", "e", "b">>
s_snippet == <<"s", "n", "i", "p", "p", "e", "t">>
s_content == <<"c", "o", "n", "t", "e", "n", "t">>
s_texte == <<"t", "e", "x", "t", "e">>
s_text == <<"t", "e", "x", "t">>
s_body == <<"b", "o", "d", "y">>
s_resume == <<"r", "e_acute", "s", "u", "m", "e_acute">>
s_summary == <<"s", "u", "m", "m", "a", "r", "y">>
s_article == <<"a", "r", "t", "i", "c", "l", "e">>
s_titre == <<"t", "i", "t", "r", "e">>
s_title == <<"t", "i", "t", "l", "e">>
s_intitule == <<"i", "n", "t", "i", "t", "u", "l", "e_acute">>
s_headline == <<"h", "e", "a", "d", "l", "i", "n", "e">>

REQUIRED_COLS(fe) ==
    IF fe = "cloud"
    THEN [publication |-> <<s_media_outlet, s_publication, s_media, s_journal>>,
          published   |-> <<s_published, s_date, s_publication_date, s_date_de_parution>>,
          URL         |-> <<s_url, s_lien, s_link, s_adresse_web>>]
    ELSE [publication |-> <<s_media_outlet, s_publication, s_media>>,
          published   |-> <<s_published, s_date, s_publication_date>>,
          URL         |-> <<s_url, s_lien, s_link>>]

CONTENT_CANDIDATES == <<s_snippet, s_content, s_texte, s_text, s_body, s_resume, s_summary>>

TITLE_CANDIDATES(fe) ==
    IF fe = "cloud"
    THEN <<s_article, s_titre, s_title, s_intitule, s_headline>>
    ELSE <<s_article, s_titre, s_title>>

(***************************************************************************)
(* find_col                                                                *)
(***************************************************************************)
\* the key under which a front end's find_col compares a header or candidate
colkey(fe, s) == IF fe = "cloud" THEN normalize_colname(s) ELSE lower(s)

\* d[k] = v on a dict (a later store of the same key overwrites)
DictPut(d, k, v) == [x \in (DOMAIN d) \cup {k} |-> IF x = k THEN v ELSE d[x]]

EmptyDict == [x \in {} |-> <<>>]

RECURSIVE DictFrom(_, _, _, _)
\* {key(c): c for c in df.columns}, built in column order from column i on
DictFrom(fe, columns, i, d) ==
    IF i > Len(columns) THEN d
    ELSE DictFrom(fe, columns, i + 1, DictPut(d, colkey(fe, columns[i]), columns[i]))

normalized_map_first(fe, columns) ==
    [k \in {colkey(fe, columns[i]) : i \in DOMAIN columns} |->
        columns[SetMin({i \in DOMAIN columns : colkey(fe, columns[i]) = k})]]

normalized_map(fe, columns) == DictFrom(fe, columns, 1, EmptyDict)

RECURSIVE FindFrom(_, _, _, _)
\* for cand in candidates: if key(cand) in map: return map[key(cand)]; return None
FindFrom(fe, map, candidates, i) ==
    IF i > Len(candidates) THEN None
    ELSE IF colkey(fe, candidates[i]) \in DOMAIN map
         THEN Some(map[colkey(fe, candidates[i])])
         ELSE FindFrom(fe, map, candidates, i + 1)

\* find_col falling back to the first header when no candidate matches
find_col_or_first(fe, columns, candidates) ==
    LET r == FindFrom(fe, normalized_map(fe, columns), candidates, 1)
    IN  IF r.some \/ columns = <<>> THEN r ELSE Some(columns[1])

find_col(fe, columns, candidates) ==
    FindFrom(fe, normalized_map(fe, columns), candidates, 1)

(***************************************************************************)
(* Cell values of the sheet.  A cell is the missing-value marker NaN or a  *)
(* str.  A datetime is written as its digits YYYYMMDD.                     *)
(***************************************************************************)
NaN == [kind |-> "nan", s |-> <<>>]

Str(s) == [kind |-> "str", s |-> s]

\* pd.isna(x)
pd_isna(x) == x.kind = "nan"

\* str(x)
str(x) == IF x.kind = "nan" THEN <<"n", "a", "n">> ELSE x.s

\* truth value of a cell: float('nan') is true, a str is true unless empty
bool(x) == IF x.kind = "nan" THEN TRUE ELSE x.s # <<>>

\* row.get(name, default) on a row of the data frame d
row_get(d, row, name, default) ==
    IF \E i \in DOMAIN d.columns : d.columns[i] = name
    THEN row[CHOOSE i \in DOMAIN d.columns : d.columns[i] = name]
    ELSE default

c_parsed_date == <<"_", "p", "a", "r", "s", "e", "d", "_", "d", "a", "t", "e">>

(***************************************************************************)
(* coerce_date                                                             *)
(***************************************************************************)
t_date_dmy == <<"1", "/", "2", "/", "2", "0", "2", "3">>
t_date_na == <<"n", "/", "a">>

\* dateparser.parse(text, dayfirst=True, fuzzy=True) on the date texts of the
\* model: day 1, month 2 of 2023 for "1/2/2023"; raises on any other text
dateparser_parse(text) ==
    IF text = t_date_dmy
    THEN [raised |-> FALSE, dt |-> <<"2", "0", "2", "3", "0", "2", "0", "1">>]
    ELSE [raised |-> TRUE, dt |-> <<>>]

coerce_date(x) ==
    IF pd_isna(x) \/ strip(str(x)) = <<>> THEN None
    ELSE LET r == dateparser_parse(str(x))
         IN  IF r.raised THEN None ELSE Some(r.dt)

\* dt.strftime("%d/%m/%Y")
strftime_dmy(dt) ==
    SubSeq(dt, 7, 8) \o <<"/">> \o SubSeq(dt, 5, 6) \o <<"/">> \o SubSeq(dt, 1, 4)

(***************************************************************************)
(* validate_dataframe                                                      *)
(***************************************************************************)
Issue(type, field, n, lines) == [type |-> type, field |-> field, n |-> n, lines |-> lines]

\* validators.url(text): scheme "http://", a non-empty rest, no white space
validators_url(text) ==
    /\ Len(text) > 7
    /\ SubSeq(text, 1, 7) = <<"h", "t", "t", "p", ":", "/", "/">>
    /\ \A i \in DOMAIN text : ~IsSpace(text[i])

\* the column of d under header name
Column(d, name) ==
    LET c == CHOOSE i \in DOMAIN d.columns : d.columns[i] = name
    IN  [k \in DOMAIN d.data |-> d.data[k][c]]

\* the loop over REQUIRED_COLS.items(): the resolved header of each field
Resolved(fe, d) ==
    [l \in {LogicalFields[i] : i \in DOMAIN LogicalFields} |->
        find_col(fe, d.columns, REQUIRED_COLS(fe)[l])]

\* col_map after the loop: the fields whose find_col result is true
ColMapOf(found) == [l \in {l \in DOMAIN found : Truthy(found[l])} |-> found[l].v]

RECURSIVE MissingIssues(_, _)
\* the "Colonne requise manquante" issues, in the order of REQUIRED_COLS,
\* given the find_col result of each field
MissingIssues(found, i) ==
    IF i > Len(LogicalFields) THEN <<>>
    ELSE (IF Truthy(found[LogicalFields[i]]) THEN <<>>
          ELSE <<Issue("missing", LogicalFields[i], 0, <<>>)>>)
         \o MissingIssues(found, i + 1)

RECURSIVE InvalidUrlLines(_, _)
\* [i + 2 for i, val in df[url_col].items() if val and not validators.url(str(val))]
\* over the values from position k on (i is the 0-based row label, k = i + 1)
InvalidUrlLines(col, k) ==
    IF k > Len(col) THEN <<>>
    ELSE (IF bool(col[k]) /\ ~validators_url(str(col[k])) THEN <<(k - 1) + 2>> ELSE <<>>)
         \o InvalidUrlLines(col, k + 1)

\* the lookups col_map["publication"], col_map["published"], col_map["URL"]
\* raise KeyError when the field is not a key of col_map
KeyErrorIn(col_map) == \E i \in DOMAIN LogicalFields : LogicalFields[i] \notin DOMAIN col_map

\* lines 65-82 of validate_dataframe: the checks of the rows, given col_map,
\* the optional headers and the issues collected so far
ValidateRows(d, col_map, issues, content_col, title_col) ==
    IF issues # <<>> /\ DOMAIN col_map = {}
    THEN [raised |-> FALSE, issues |-> issues, col_map |-> None,
          content_col |-> None, title_col |-> None, coerced |-> {}]
    ELSE IF KeyErrorIn(col_map)
    THEN [raised |-> TRUE, issues |-> <<>>, col_map |-> None,
          content_col |-> None, title_col |-> None, coerced |-> {}]
    ELSE
    LET pub == Column(d, col_map["publication"])
        urls == Column(d, col_map["URL"])
        dates == Column(d, col_map["published"])
        \* parsed_dates = df[date_col].apply(coerce_date); the column
        \* "_parsed_date" is stored in a copy of df local to this function
        parsed_dates == [k \in DOMAIN d.data |-> coerce_date(dates[k])]
        df_copy == [columns |-> Append(d.columns, c_parsed_date),
                    data |-> [k \in DOMAIN d.data |-> Append(d.data[k], parsed_dates[k])]]
        empty_rows == {k \in DOMAIN df_copy.data : strip(str(pub[k])) = <<>>}
        invalid_urls == InvalidUrlLines(urls, 1)
    IN  [raised |-> FALSE,
         issues |-> issues
             \o (IF empty_rows # {}
                 THEN <<Issue("empty_pub", "", Cardinality(empty_rows), <<>>)>> ELSE <<>>)
             \o (IF invalid_urls # <<>>
                 THEN <<Issue("invalid_urls", "", 0, invalid_urls)>> ELSE <<>>),
         col_map |-> Some(col_map), content_col |-> content_col,
         title_col |-> title_col, coerced |-> DOMAIN parsed_dates]

\* lines 44-60 of validate_dataframe: col_map and the issues of the headers,
\* given what find_col returned for each field and for the optional headers
ValidateHeaders(d, found, content_col, title_col) ==
    ValidateRows(d, ColMapOf(found),
                 MissingIssues(found, 1)
                 \o (IF ~Truthy(content_col) THEN <<Issue("no_content", "", 0, <<>>)>> ELSE <<>>)
                 \o (IF ~Truthy(title_col) THEN <<Issue("no_title", "", 0, <<>>)>> ELSE <<>>),
                 content_col, title_col)

validate_dataframe(fe, d) ==
    ValidateHeaders(d, Resolved(fe, d), find_col(fe, d.columns, CONTENT_CANDIDATES),
                    find_col(fe, d.columns, TITLE_CANDIDATES(fe)))

(***************************************************************************)
(* html_escape / build_email_html.  The HTML text is a sequence whose      *)
(* elements are the literals of the template, each a single element, and   *)
(* the characters of the inserted values.                                  *)
(***************************************************************************)
\* html.escape(c, quote=False)
escape_char_noquote(c) ==
    IF c = "&" THEN <<"&", "a", "m", "p", ";">>
    ELSE IF c = "<" THEN <<"&", "l", "t", ";">>
    ELSE IF c = ">" THEN <<"&", "g", "t", ";">>
    ELSE <<c>>

\* html.escape(c) of one character (quote=True)
escape_char(c) ==
    IF c = "&" THEN <<"&", "a", "m", "p", ";">>
    ELSE IF c = "<" THEN <<"&", "l", "t", ";">>
    ELSE IF c = ">" THEN <<"&", "g", "t", ";">>
    ELSE IF c = "\"" THEN <<"&", "q", "u", "o", "t", ";">>
    ELSE IF c = "'" THEN <<"&", "#", "x", "2", "7", ";">>
    ELSE <<c>>

RECURSIVE html_dot_escape(_)
html_dot_escape(s) ==
    IF s = <<>> THEN <<>> ELSE escape_char(Head(s)) \o html_dot_escape(Tail(s))

\* html.escape("" if s is None else str(s)) of an Optional[str]
html_escape(o) == html_dot_escape(IF o.some THEN o.v ELSE <<>>)

T_OPEN == "<div style=\"font-family:Arial,Helvetica,sans-serif;font-size:14px;line-height:1.45;\">"
T_H1 == "<h1 style=\"font-size:20px;margin-bottom:16px;\">"
T_H1_END == "</h1>"
T_CARD == "<div style=\"margin-bottom:14px;padding:12px;border:1px solid #e6e6e6;border-radius:8px;\">"
T_PUBLICATION == "<div><b>Publication:</b> "
T_DATE == "<div><b>Date:</b> "
\* The literal "<div><b>Résumé:</b> " of the template, written in ASCII.
T_RESUME == "<div><b>Resume:</b> "
T_LIEN == "<div><b>Lien:</b> <a href=\""
T_LIEN_MID == "\">"
T_LIEN_END == "</a></div>"
T_DIV_END == "</div>"
T_NEWLINE == "\n"

TemplateLiterals == {T_OPEN, T_H1, T_H1_END, T_CARD, T_PUBLICATION, T_DATE, T_RESUME,
                     T_LIEN, T_LIEN_MID, T_LIEN_END, T_DIV_END, T_NEWLINE}

\* the parts appended for one record r
CardParts(r) ==
    <<  <<T_CARD>>,
        <<T_PUBLICATION>> \o html_escape(Some(r.publication)) \o <<T_DIV_END>>,
        <<T_DATE>> \o html_escape(Some(r.date)) \o <<T_DIV_END>>,
        <<T_RESUME>> \o html_escape(Some(r.summary)) \o <<T_DIV_END>> >>
    \o (IF Truthy(r.url)
        THEN << <<T_LIEN>> \o html_escape(r.url) \o <<T_LIEN_MID>>
                 \o html_escape(r.url) \o <<T_LIEN_END>> >>
        ELSE <<>>)
    \o << <<T_DIV_END>> >>

RECURSIVE AllCardParts(_)
\* for r in rows: parts.append(...)
AllCardParts(rs) ==
    IF rs = <<>> THEN <<>> ELSE CardParts(Head(rs)) \o AllCardParts(Tail(rs))

RECURSIVE Join(_)
\* "\n".join(parts)
Join(parts) ==
    IF parts = <<>> THEN <<>>
    ELSE IF Len(parts) = 1 THEN parts[1]
    ELSE parts[1] \o <<T_NEWLINE>> \o Join(Tail(parts))

build_email_html(rs, title) ==
    Join(<< <<T_OPEN>>, <<T_H1>> \o html_escape(Some(title)) \o <<T_H1_END>> >>
         \o AllCardParts(rs)
         \o << <<T_DIV_END>> >>)

(***************************************************************************)
(* Row transformation and summarization (the body of the row loop)         *)
(***************************************************************************)
\* truth value of what row.get("_parsed_date") returns: a cell of the sheet,
\* an Optional datetime, or the default None
PyTruth(x) == IF "some" \in DOMAIN x THEN x.some ELSE bool(x)

\* isinstance(dt, datetime)
IsDatetime(x) == "some" \in DOMAIN x /\ x.some

\* the normalized record of one row, and whether coerce_date was called
TransformRow(d, v, row) ==
    LET pub_col == v.col_map.v["publication"]
        date_col == v.col_map.v["published"]
        url_col == v.col_map.v["URL"]
        publication == strip(str(row_get(d, row, pub_col, Str(<<>>))))
        url_text == strip(str(row_get(d, row, url_col, Str(<<>>))))
        precomputed == row_get(d, row, c_parsed_date, None)
        dt == IF PyTruth(precomputed) THEN precomputed
              ELSE coerce_date(row_get(d, row, date_col, NaN))
    IN  [publication |-> publication,
         url |-> IF url_text # <<>> THEN Some(url_text) ELSE None,
         date |-> IF IsDatetime(dt) THEN strftime_dmy(dt.v)
                  ELSE strip(str(row_get(d, row, date_col, Str(<<>>)))),
         title |-> IF Truthy(v.title_col)
                   THEN strip(str(row_get(d, row, v.title_col.v, Str(<<>>))))
                   ELSE publication,
         content |-> IF Truthy(v.content_col)
                     THEN strip(str(row_get(d, row, v.content_col.v, Str(<<>>))))
                     ELSE <<>>,
         coerced |-> ~PyTruth(precomputed)]

t_article_de_presse == <<"A", "r", "t", "i", "c", "l", "e", " ", "d", "e", " ",
                         "p", "r", "e", "s", "s", "e">>

\* content or title or publication or url or "Article de presse"
base_context(n) ==
    IF n.content # <<>> THEN n.content
    ELSE IF n.title # <<>> THEN n.title
    ELSE IF n.publication # <<>> THEN n.publication
    ELSE IF Truthy(n.url) THEN n.url.v
    ELSE t_article_de_presse

t_resume_indisponible == <<"R", "e_acute", "s", "u", "m", "e_acute", " ", "i", "n", "d",
                           "i", "s", "p", "o", "n", "i", "b", "l", "e">>

fallback_placeholder_only(title_val) == t_resume_indisponible

\* except Exception: summary = title_val or "Resume indisponible"
fallback_summary(title_val) ==
    IF title_val # <<>> THEN title_val ELSE t_resume_indisponible

\* df.head(n)
head(d, n) ==
    [d EXCEPT !.data =
        IF n >= 0 THEN SubSeq(d.data, 1, IF n < Len(d.data) THEN n ELSE Len(d.data))
        ELSE SubSeq(d.data, 1, IF Len(d.data) + n > 0 THEN Len(d.data) + n ELSE 0)]

rows_prepend(rs, r) == <<r>> \o rs

\* rows.append({...})
rows_append(rs, r) == Append(rs, r)

(***************************************************************************)
(* The run of a front end: main() of Auto_Data4.py, the upload handler of  *)
(* Auto-monitoring-cloud.py                                                *)
(***************************************************************************)
FrontEnds == {"cli", "cloud"}

Unvalidated == [raised |-> FALSE, issues |-> <<>>, col_map |-> None,
                content_col |-> None, title_col |-> None, coerced |-> {}]

\* the sheets of the model: the columns are a selection of these headers
c_Media_Outlet == <<"M", "e", "d", "i", "a", " ", "O", "u", "t", "l", "e", "t">>
c_Date == <<"D", "a", "t", "e">>
c_URL == <<"U", "R", "L">>
c_Titre == <<"T", "i", "t", "r", "e">>
c_Snippet == <<"S", "n", "i", "p", "p", "e", "t">>

SheetHeaders == <<c_Media_Outlet, c_Date, c_URL, c_Titre, c_Snippet>>

\* rows of cells, one cell per header of SheetHeaders
RowPool ==
    { << Str(<<"L", "M">>), Str(t_date_dmy),
         Str(<<"h", "t", "t", "p", ":", "/", "/", "a", "?", "x", "&", "y">>),
         Str(<<" ", "T", "<", "1", ">">>), Str(<<"t", "x", "t">>) >>,
      << Str(<<"F", "&", "\"">>), Str(t_date_na), NaN, NaN, Str(<<>>) >>,
      << Str(<<" ">>), NaN, Str(<<"b", "a", "d", " ", "'", "u", "'">>), Str(<<>>), NaN >>,
      << NaN, Str(<<" ">>), Str(<<" ">>), Str(<<" ">>), Str(<<"c">>) >>,
      << Str(<<"E">>), Str(<<>>), Str(<<>>), Str(<<"T", "2">>), Str(<<>>) >> }

\* the sub-sequence of s at the positions in keep
RECURSIVE Project(_, _, _)
Project(s, keep, i) ==
    IF i > Len(s) THEN <<>>
    ELSE (IF i \in keep THEN <<s[i]>> ELSE <<>>) \o Project(s, keep, i + 1)

Sheets ==
    {[columns |-> Project(SheetHeaders, keep, 1),
      data |-> [k \in DOMAIN full |-> Project(full[k], keep, 1)]]
        : keep \in SUBSET (DOMAIN SheetHeaders),
          full \in UNION {[1..n -> RowPool] : n \in 0..MaxRows}}

ReportTitles == {<<"<", "R", "&", "D", ">">>}

MaxRowsArgs == {0, 1}

\* what the Summarizer answers: an exception, or a text
SummarizerOutcomes ==
    {[raised |-> TRUE, text |-> <<>>],
     [raised |-> FALSE, text |-> <<" ", "S", "<", "i", ">", " ">>]}

FcIdle == [pc |-> "off", frontend |-> "cli", columns |-> <<>>, columns2 |-> <<>>,
           candidates |-> <<>>, result |-> None, result2 |-> None]

RdIdle == [pc |-> "off", rows |-> <<>>, title |-> <<>>, out |-> <<>>]

Init ==
    /\ frontend \in FrontEnds
    /\ sheet \in Sheets
    /\ args \in [max_rows : MaxRowsArgs, title : ReportTitles]
    /\ frontend = "cloud" => args.max_rows = 0
    /\ pc = "start"
    /\ df = [columns |-> <<>>, data |-> <<>>]
    /\ validation = Unvalidated
    /\ idx = 0
    /\ rows = <<>>
    /\ html_out = None
    /\ rapport_html = None
    /\ delivered = None
    /\ coerce_calls = [k \in DOMAIN sheet.data |-> 0]
    /\ summarizer_calls = <<>>
    /\ fc = FcIdle
    /\ rd = RdIdle

\* pd.read_excel(...): the sheet, or an exception (the run ends)
ReadExcel ==
    /\ pc = "start"
    /\ \/ pc' = "read" /\ df' = sheet
       \/ pc' = "io_error" /\ df' = df
    /\ UNCHANGED <<frontend, sheet, args, validation, idx, rows, html_out, rapport_html,
                   delivered, coerce_calls, summarizer_calls, fc, rd>>

\* validate_dataframe(df) and the front end's reaction to what it returns:
\* a KeyError ends the run (cli: uncaught; cloud: caught by the handler's
\* except, st.error); an absent col_map ends it (cli: sys.exit(1); cloud:
\* st.error); otherwise the row loop starts, in the cli over df.head(max_rows)
Validate ==
    /\ pc = "read"
    /\ \E v \in {validate_dataframe(frontend, df)} :
           /\ validation' = v
           /\ coerce_calls' = [k \in DOMAIN coerce_calls |->
                                  coerce_calls[k] + (IF k \in v.coerced THEN 1 ELSE 0)]
           /\ IF v.raised THEN pc' = "exception" /\ UNCHANGED <<df, idx>>
              ELSE IF ~(v.col_map.some /\ DOMAIN v.col_map.v # {})
              THEN pc' = "schema_refused" /\ UNCHANGED <<df, idx>>
              ELSE /\ pc' = "loop"
                   /\ idx' = 1
                   /\ df' = IF frontend = "cli" /\ args.max_rows # 0
                            THEN head(df, args.max_rows) ELSE df
    /\ UNCHANGED <<frontend, sheet, args, rows, html_out, rapport_html, delivered,
                   summarizer_calls, fc, rd>>

\* one iteration of "for _, row in df.iterrows()": the row is transformed,
\* smart_summarize is called and answers with outcome o, the record is appended
ProcessRow(o) ==
    /\ pc = "loop"
    /\ idx <= Len(df.data)
    /\ \E n \in {TransformRow(df, validation, df.data[idx])} :
       LET summary == IF o.raised THEN fallback_summary(n.title) ELSE strip(o.text)
       IN  /\ rows' = rows_append(rows, [publication |-> n.publication, date |-> n.date,
                                         summary |-> summary, url |-> n.url])
           /\ summarizer_calls' = Append(summarizer_calls,
                                         [row |-> idx, context |-> base_context(n),
                                          raised |-> o.raised, text |-> o.text])
           /\ coerce_calls' = [coerce_calls EXCEPT ![idx] = @ + (IF n.coerced THEN 1 ELSE 0)]
    /\ idx' = idx + 1
    /\ UNCHANGED <<frontend, sheet, args, pc, df, validation, html_out, rapport_html,
                   delivered, fc, rd>>

\* html_out = build_email_html(rows, title=...) after the loop
Render ==
    /\ pc = "loop"
    /\ idx > Len(df.data)
    /\ html_out' = Some(build_email_html(rows, args.title))
    /\ pc' = "rendered"
    /\ UNCHANGED <<frontend, sheet, args, df, validation, idx, rows, rapport_html,
                   delivered, coerce_calls, summarizer_calls, fc, rd>>

\* cli: the report is written to rapport.html
WriteFile ==
    /\ pc = "rendered"
    /\ frontend = "cli"
    /\ rapport_html' = html_out
    /\ pc' = "written"
    /\ UNCHANGED <<frontend, sheet, args, df, validation, idx, rows, html_out,
                   delivered, coerce_calls, summarizer_calls, fc, rd>>

\* cli: send_via_outlook: the draft is opened, unless win32com is not installed
SendViaOutlook ==
    /\ pc = "written"
    /\ \/ delivered' = html_out
       \/ delivered' = delivered
    /\ pc' = "done"
    /\ UNCHANGED <<frontend, sheet, args, df, validation, idx, rows, html_out,
                   rapport_html, coerce_calls, summarizer_calls, fc, rd>>

\* cloud: st.markdown(html_out) and the download button for rapport.html
ShowReport ==
    /\ pc = "rendered"
    /\ frontend = "cloud"
    /\ delivered' = html_out
    /\ pc' = "done"
    /\ UNCHANGED <<frontend, sheet, args, df, validation, idx, rows, html_out,
                   rapport_html, coerce_calls, summarizer_calls, fc, rd>>

Summarize == \E o \in SummarizerOutcomes : ProcessRow(o)

Next ==
    \/ ReadExcel
    \/ Validate
    \/ Summarize
    \/ Render
    \/ WriteFile
    \/ SendViaOutlook
    \/ ShowReport

Spec == Init /\ [][Next]_vars

\* the runs in which the Summarizer fails on every call
SummarizeFailing == ProcessRow([raised |-> TRUE, text |-> <<>>])

NextFailing ==
    \/ ReadExcel
    \/ Validate
    \/ SummarizeFailing
    \/ Render
    \/ WriteFile
    \/ SendViaOutlook
    \/ ShowReport

\* the front end is a sequential program: it takes its next step when it has one
SpecFailing == Init /\ [][NextFailing]_vars /\ WF_vars(NextFailing)

(***************************************************************************)
(* Specification SpecFindCol: find_col applied to bounded header sets      *)
(***************************************************************************)
h_url == <<"u", "r", "l">>
h_URL == <<"U", "R", "L">>
h_Url_sp == <<" ", "U", "r", "l", " ">>
h_Lien == <<"L", "i", "e", "n">>
h_media == <<"m", "e", "d", "i", "a">>
h_Media_acc == <<"M", "e_acute", "d", "i", "a">>
h_MEDIA_sp == <<" ", "M", "E", "D", "I", "A">>
h_Resume == <<"R", "e", "s", "u", "m", "e">>
h_Resume_acc == <<"R", "e_acute", "s", "u", "m", "e_acute">>
h_foo == <<"f", "o", "o">>

HeaderPool == {h_url, h_URL, h_Url_sp, h_Lien, h_media, h_Media_acc, h_MEDIA_sp,
               h_Resume, h_Resume_acc, h_foo}

\* header rows: up to MaxHeaders pairwise distinct header strings
HeaderRows ==
    UNION {{h \in [1..n -> HeaderPool] : \A i, j \in 1..n : i # j => h[i] # h[j]}
           : n \in 0..MaxHeaders}

CandidateLists(fe) ==
    {REQUIRED_COLS(fe).publication, REQUIRED_COLS(fe).published, REQUIRED_COLS(fe).URL,
     CONTENT_CANDIDATES, TITLE_CANDIDATES(fe)}

\* the headers of the pool that differ from h only in case, diacritics or
\* surrounding whitespace
Variants(h) == {g \in HeaderPool : normalize_colname(g) = normalize_colname(h)}

RECURSIVE Respellings(_)
\* the header rows that respell row a header by header
Respellings(a) ==
    IF a = <<>> THEN {<<>>}
    ELSE {<<g>> \o r : g \in Variants(Head(a)), r \in Respellings(Tail(a))}

PipelineIdle ==
    /\ frontend = "cli"
    /\ sheet = [columns |-> <<>>, data |-> <<>>]
    /\ args = [max_rows |-> 0, title |-> <<>>]
    /\ pc = "off"
    /\ df = [columns |-> <<>>, data |-> <<>>]
    /\ validation = Unvalidated
    /\ idx = 0
    /\ rows = <<>>
    /\ html_out = None
    /\ rapport_html = None
    /\ delivered = None
    /\ coerce_calls = <<>>
    /\ summarizer_calls = <<>>

InitFindCol ==
    /\ PipelineIdle
    /\ rd = RdIdle
    /\ \E fe \in FrontEnds, a \in HeaderRows :
        \E b \in Respellings(a) \cap HeaderRows, cands \in CandidateLists(fe) :
            fc = [pc |-> "call", frontend |-> fe, columns |-> a, columns2 |-> b,
                     candidates |-> cands, result |-> None, result2 |-> None]

CallFindCol ==
    /\ fc.pc = "call"
    /\ fc' = [fc EXCEPT !.pc = "returned",
                        !.result = find_col(fc.frontend, fc.columns, fc.candidates),
                        !.result2 = find_col(fc.frontend, fc.columns2, fc.candidates)]
    /\ UNCHANGED <<pipeline, rd>>

NextFindCol == CallFindCol

SpecFindCol == InitFindCol /\ [][NextFindCol]_vars

(***************************************************************************)
(* Specification SpecRender: build_email_html applied to bounded records   *)
(***************************************************************************)
RenderTexts == {<<>>, <<"a", "b">>, <<"<", "&", "l", "t", ";", "\"", "'", ">">>}

RenderUrls == {None} \cup {Some(t) : t \in RenderTexts}

RenderRecords == [publication : RenderTexts, date : RenderTexts,
                  summary : RenderTexts, url : RenderUrls]

InitRender ==
    /\ PipelineIdle
    /\ fc = FcIdle
    /\ \E rs \in UNION {[1..n -> RenderRecords] : n \in 0..MaxRecords}, t \in RenderTexts :
          rd = [pc |-> "call", rows |-> rs, title |-> t, out |-> <<>>]

CallBuildEmailHtml ==
    /\ rd.pc = "call"
    /\ rd' = [rd EXCEPT !.pc = "rendered", !.out = build_email_html(rd.rows, rd.title)]
    /\ UNCHANGED <<pipeline, fc>>

NextRender == CallBuildEmailHtml

SpecRender == InitRender /\ [][NextRender]_vars

(***************************************************************************)
(* Reading a rendered report: the inserted text that follows a literal       *)
(***************************************************************************)
\* the inserted characters from position i up to the next template literal
Run(out, i) ==
    LET stops == {j \in i..Len(out) : out[j] \in TemplateLiterals}
    IN  SubSeq(out, i, IF stops = {} THEN Len(out) ELSE SetMin(stops) - 1)

\* the inserted texts that follow the literals in openers, in order
Slots(out, openers) ==
    LET at == {i \in DOMAIN out : out[i] \in openers}
        nth(k) == CHOOSE i \in at : Cardinality({j \in at : j < i}) = k - 1
    IN  [k \in 1..Cardinality(at) |-> Run(out, nth(k) + 1)]

ValueOpeners == {T_H1, T_PUBLICATION, T_DATE, T_RESUME, T_LIEN, T_LIEN_MID}

\* the character references of HTML for the five special characters
Entities == << <<"&", <<"&", "a", "m", "p", ";">> >>,
               <<"<", <<"&", "l", "t", ";">> >>,
               <<">", <<"&", "g", "t", ";">> >>,
               <<"\"", <<"&", "q", "u", "o", "t", ";">> >>,
               <<"'", <<"&", "#", "x", "2", "7", ";">> >> >>

StartsWith(s, prefix) == Len(s) >= Len(prefix) /\ SubSeq(s, 1, Len(prefix)) = prefix

RECURSIVE Unescape(_)
\* the text an HTML reader shows for s; "!" marks a "&" that starts no reference
Unescape(s) ==
    IF s = <<>> THEN <<>>
    ELSE IF Head(s) # "&" THEN <<Head(s)>> \o Unescape(Tail(s))
    ELSE IF \E e \in DOMAIN Entities : StartsWith(s, Entities[e][2])
    THEN LET e == CHOOSE e \in DOMAIN Entities : StartsWith(s, Entities[e][2])
         IN  <<Entities[e][1]>> \o Unescape(SubSeq(s, Len(Entities[e][2]) + 1, Len(s)))
    ELSE <<"!", "&">> \o Unescape(Tail(s))

\* no raw <, >, " or ', and every & starts a character reference
WellEscaped(s) ==
    \A i \in DOMAIN s :
        /\ s[i] \notin {"<", ">", "\"", "'"}
        /\ s[i] = "&" => \E e \in DOMAIN Entities :
                            StartsWith(SubSeq(s, i, Len(s)), Entities[e][2])

RECURSIVE InsertedValues(_)
\* the values build_email_html is given to insert for the records rs, in order
InsertedValues(rs) ==
    IF rs = <<>> THEN <<>>
    ELSE <<Head(rs).publication, Head(rs).date, Head(rs).summary>>
         \o (IF Head(rs).url.some /\ Head(rs).url.v # <<>>
             THEN <<Head(rs).url.v, Head(rs).url.v>> ELSE <<>>)
         \o InsertedValues(Tail(rs))

(***************************************************************************)
(* Properties of a run                                                     *)
(***************************************************************************)
\* validate_dataframe has been called
Validated == pc \notin {"off", "start", "read", "io_error"}

\* the report has been rendered
Reported == pc \in {"rendered", "written", "done"}

\* no header of the sheet matches a candidate of mandatory field l
Unresolved(l) ==
    \A i \in DOMAIN sheet.columns, j \in DOMAIN REQUIRED_COLS(frontend)[l] :
        colkey(frontend, sheet.columns[i]) # colkey(frontend, REQUIRED_COLS(frontend)[l][j])

MandatoryFields == {LogicalFields[i] : i \in DOMAIN LogicalFields}

\* the cell of row under the header the validation resolved for field l
CellOf(row, l) == row_get(sheet, row, validation.col_map.v[l], NaN)

\* a blank cell: the missing-value marker, or empty or white-space-only text
Blank(cell) == pd_isna(cell) \/ strip(cell.s) = <<>>

(* C1: whenever a mandatory field (publication, published, URL) has no
   matching header, validate_dataframe returns normally with the schema and
   both optional headers absent and with a blocking issue naming that field;
   also when only one or two of the three fields are missing. *)
C1_MissingFieldReturnsAbsent ==
    (Validated /\ \E l \in MandatoryFields : Unresolved(l)) =>
        /\ ~validation.raised
        /\ validation.col_map = None
        /\ validation.content_col = None
        /\ validation.title_col = None
        /\ \A l \in MandatoryFields :
              Unresolved(l) => \E k \in DOMAIN validation.issues :
                                  /\ validation.issues[k].type = "missing"
                                  /\ validation.issues[k].field = l

\* the part of C1 the code satisfies: all three mandatory fields missing
C1_AllMissing ==
    (Validated /\ \A l \in MandatoryFields : Unresolved(l)) => C1_MissingFieldReturnsAbsent

\* position of header h in a header row (headers are pairwise distinct)
ColumnIndex(columns, o) ==
    IF o.some /\ \E i \in DOMAIN columns : columns[i] = o.v
    THEN CHOOSE i \in DOMAIN columns : columns[i] = o.v
    ELSE 0

Reverse(s) == [i \in 1..Len(s) |-> s[Len(s) + 1 - i]]

(* C2: for two header rows that differ only in the case, diacritics or
   surrounding whitespace of their headers, find_col resolves to the
   corresponding column in both, and a header equal to a candidate after
   lower-casing, trimming and accent-stripping is always found, in every
   front end. *)
C2_FindColFoldsCaseAccentSpace ==
    fc.pc = "returned" =>
        /\ ColumnIndex(fc.columns, fc.result) = ColumnIndex(fc.columns2, fc.result2)
        /\ (\E i \in DOMAIN fc.columns, j \in DOMAIN fc.candidates :
                normalize_colname(fc.columns[i]) = normalize_colname(fc.candidates[j]))
             => fc.result.some

\* the part of C2 that the Streamlit front end does satisfy
C2_CloudOnly == fc.frontend = "cloud" => C2_FindColFoldsCaseAccentSpace

\* the title value of the i-th row of the sheet
TitleValue(i) ==
    IF validation.title_col.some /\ validation.title_col.v # <<>>
    THEN strip(str(row_get(sheet, sheet.data[i], validation.title_col.v, NaN)))
    ELSE strip(str(CellOf(sheet.data[i], "publication")))

SummaryIsFallback(i) ==
    rows[i].summary = IF TitleValue(i) = <<>> THEN t_resume_indisponible ELSE TitleValue(i)

(* C3 as stated: with the schema resolved and the Summarizer failing on every
   call, the run completes with one output record per input row, each
   record's summary being its title value, or "Resume indisponible" when the
   title value is empty. *)
C3_OneRecordPerInputRow ==
    Reported =>
        /\ Len(rows) = Len(sheet.data)
        /\ \A i \in DOMAIN rows : SummaryIsFallback(i)

(* C3 as amended: with the schema resolved and the Summarizer failing on every
   call, no failure leaves the row loop: in the loop the front end always has
   a next step (the next row, or the rendering) and idx counts the rows done,
   so the report is rendered after Len(df) iterations; it has one output
   record per row of the table the loop iterates (the sheet, cut by
   df.head(max_rows) when the command line gives --max-rows), the i-th
   record's summary being the i-th row's title value, or "Resume
   indisponible" when that is empty. *)
C3_FallbackCompletes ==
    /\ pc = "loop" =>
          /\ idx <= Len(df.data) + 1
          /\ Len(rows) = idx - 1
          /\ ENABLED (SummarizeFailing \/ Render)
    /\ \A i \in DOMAIN rows : SummaryIsFallback(i)
    /\ Reported =>
          Len(rows) = Len(IF frontend = "cli" /\ args.max_rows # 0
                          THEN head(sheet, args.max_rows).data ELSE sheet.data)

\* a finished run of two rows, one with an empty title value
C3_Witness ==
    /\ pc = "done"
    /\ Len(rows) = 2
    /\ \A k \in DOMAIN summarizer_calls : summarizer_calls[k].raised
    /\ rows[1].summary = t_resume_indisponible
    /\ rows[2].summary # t_resume_indisponible

(* C4: in a run of either front end in which a mandatory field is
   unresolved, no row is transformed: the Summarizer is never called and no
   report is rendered, written to rapport.html or delivered; every call of the
   Summarizer follows a validation that resolved all three mandatory fields. *)
C4_UnresolvedHalts ==
    /\ (\E l \in MandatoryFields : Unresolved(l)) =>
          /\ summarizer_calls = <<>>
          /\ rows = <<>>
          /\ html_out = None
          /\ rapport_html = None
          /\ delivered = None
    /\ summarizer_calls # <<>> =>
          /\ validation.col_map.some
          /\ DOMAIN validation.col_map.v = MandatoryFields

\* a run ended by the validation of a sheet that has rows and lacks exactly
\* one of the mandatory columns
C4_Witness ==
    /\ pc = "exception"
    /\ sheet.data # <<>>
    /\ Cardinality({l \in MandatoryFields : Unresolved(l)}) = 1

(* C5: in the output of build_email_html every text value supplied to it
   (the report title, each record's publication, date, summary, and url in
   both the href attribute and the link text) appears only HTML-escaped: no
   raw <, >, & or quote of a value reaches the output, for every sequence of
   records. *)
C5_OutputEscaped ==
    rd.pc = "rendered" =>
        LET slots == Slots(rd.out, ValueOpeners)
        IN  /\ \A k \in DOMAIN slots : WellEscaped(slots[k])
            /\ [k \in DOMAIN slots |-> Unescape(slots[k])]
                 = <<rd.title>> \o InsertedValues(rd.rows)

\* a rendered record whose publication, summary and url hold special characters
C5_Witness ==
    /\ rd.pc = "rendered"
    /\ Len(rd.rows) = 1
    /\ \E i \in DOMAIN rd.rows[1].publication : rd.rows[1].publication[i] = "<"
    /\ \E i \in DOMAIN rd.rows[1].summary : rd.rows[1].summary[i] = "&"
    /\ rd.rows[1].url.some
    /\ \E i \in DOMAIN rd.rows[1].url.v : rd.rows[1].url.v[i] = "\""
    /\ \E i \in DOMAIN rd.title : rd.title[i] = "'"
    /\ \E i \in DOMAIN rd.out : rd.out[i] = T_LIEN

\* the publication texts of the cards of a report, in order
CardPublications(out) == Slots(out, {T_PUBLICATION})

\* the number of elements of out equal to literal
Count(out, literal) == Cardinality({i \in DOMAIN out : out[i] = literal})

(* C6: the rendered report holds exactly one card per processed row, in the
   order of the rows of the input table: the i-th card is built from the i-th
   row, whichever Summarizer calls failed. *)
C6_OneCardPerRowInOrder ==
    Reported =>
        /\ Count(html_out.v, T_CARD) = Len(df.data)
        /\ Len(summarizer_calls) = Len(df.data)
        /\ CardPublications(html_out.v)
             = [i \in 1..Len(df.data) |->
                   html_dot_escape(strip(str(CellOf(sheet.data[i], "publication"))))]
        /\ Slots(html_out.v, {T_RESUME})
             = [i \in 1..Len(df.data) |->
                   html_dot_escape(
                       IF summarizer_calls[i].raised
                       THEN (IF TitleValue(i) = <<>> THEN t_resume_indisponible
                             ELSE TitleValue(i))
                       ELSE strip(summarizer_calls[i].text))]

\* a report of two rows with different publications, the first summarized by
\* the fallback and the second by the Summarizer
C6_Witness ==
    /\ Reported
    /\ Len(df.data) = 2
    /\ CardPublications(html_out.v)[1] # CardPublications(html_out.v)[2]
    /\ summarizer_calls[1].raised
    /\ ~summarizer_calls[2].raised

(* C7: for every row whose URL cell is blank (empty text, white-space-only
   text, or the missing-value marker), the normalized record has url None. *)
C7_BlankUrlIsNone ==
    \A i \in DOMAIN rows : Blank(CellOf(sheet.data[i], "URL")) => rows[i].url = None

\* the part of C7 the code satisfies: blank text
C7_BlankTextUrlIsNone ==
    \A i \in DOMAIN rows :
        (~pd_isna(CellOf(sheet.data[i], "URL")) /\ Blank(CellOf(sheet.data[i], "URL")))
            => rows[i].url = None

(* C8: after a validation that resolved the schema, coerce_date is applied to
   each row's date once, during validation; the row transformation takes the
   date from the precomputed column and does not call coerce_date again. *)
C8_DateCoercedOnce ==
    (Validated /\ validation.col_map.some) =>
        \A k \in DOMAIN coerce_calls : coerce_calls[k] = 1

RECURSIVE ExpectedInvalidLines(_)
\* the rows from k on whose Url is neither empty nor the missing-value marker
\* and fails the URL check, each as its 0-based position plus 2
ExpectedInvalidLines(k) ==
    IF k > Len(sheet.data) THEN <<>>
    ELSE LET cell == CellOf(sheet.data[k], "URL")
         IN  (IF ~pd_isna(cell) /\ cell.s # <<>> /\ ~validators_url(cell.s)
              THEN <<(k - 1) + 2>> ELSE <<>>) \o ExpectedInvalidLines(k + 1)

(* C9: with the schema resolved, validate_dataframe emits at most one
   invalid-URL issue; it lists exactly the rows whose Url is non-blank and
   fails the URL check, as 0-based position plus 2, in row order; a row whose
   Url is empty or the missing-value marker is never listed; no such issue is
   emitted when no row qualifies. *)
C9_InvalidUrlIssue ==
    (Validated /\ validation.col_map.some) =>
        LET found == SelectSeq(validation.issues, LAMBDA x : x.type = "invalid_urls")
            expected == ExpectedInvalidLines(1)
        IN  /\ Len(found) <= 1
            /\ expected = <<>> => found = <<>>
            /\ expected # <<>> => Len(found) = 1 /\ found[1].lines = expected

(* C10: find_col returns the header matching the earliest candidate (in
   candidate order) that has any matching header, whatever the order of the
   headers; it returns None exactly when no candidate matches a header; of
   two headers with the same normal form the later one is returned. *)
C10_FindColPriority ==
    fc.pc = "returned" =>
        LET fe == fc.frontend
            cols == fc.columns
            cands == fc.candidates
            hits(i) == {j \in DOMAIN cols : colkey(fe, cols[j]) = colkey(fe, cands[i])}
            matching == {i \in DOMAIN cands : hits(i) # {}}
            rev == find_col(fe, Reverse(cols), cands)
        IN  /\ fc.result.some <=> matching # {}
            /\ rev.some <=> fc.result.some
            /\ matching # {} =>
                  /\ fc.result.v = cols[SetMax(hits(SetMin(matching)))]
                  /\ colkey(fe, rev.v) = colkey(fe, cands[SetMin(matching)])

\* two headers with one normal form, matched by a candidate that is not the
\* first of its list, and the later header returned
C10_Witness ==
    /\ fc.pc = "returned"
    /\ fc.result.some
    /\ colkey(fc.frontend, fc.candidates[1]) # colkey(fc.frontend, fc.result.v)
    /\ \E i, j \in DOMAIN fc.columns :
          /\ i < j
          /\ colkey(fc.frontend, fc.columns[i]) = colkey(fc.frontend, fc.columns[j])
          /\ fc.result.v = fc.columns[j]

====
